---- MODULE Spec2Model ----
(***************************************************************************)
(* Model of pilot/pkg/proxy/envoy/v2/eds.go: the EDS stream handler        *)
(* (StreamEndpoints), its reader goroutine, the per-connection push        *)
(* (pushEds), the global push (edsPushAll) and the cluster registry        *)
(* (edsClusters, EdsCluster, addEdsCon, removeEdsCon).                     *)
(*                                                                         *)
(* Go pointers that may be nil and buffered channels of capacity one are   *)
(* sequences of length at most one.  EdsCluster objects live in the        *)
(* sequence `clusters`, a pointer is an index into it.  A critical section *)
(* that cannot block inside is one step whose guard is that the mutex is   *)
(* free; edsPushAll sends on channels while it holds an EdsCluster mutex,  *)
(* so that mutex has an explicit owner.                                    *)
(***************************************************************************)
EXTENDS Integers, Sequences, FiniteSets, TLC

(* ------------------------------- bounds -------------------------------- *)

\* requests the client of the first connection sends on its stream
MaxReq == 2
\* runs of edsPushAll
MaxCycle == 1
\* changes of the service registry's content
MaxVer == 1
\* length of the instance lists localityLbEndpointsFromInstances is called on
MaxInstances == 3
\* calls of FetchEndpoints and StreamLoadStats
MaxRpc == 1

Conns == {"c1", "c2"}
Names == <<"a", "b">>
NameSet == {Names[k] : k \in 1..Len(Names)}
Nodes == {"n1"}

\* discReq.Node == nil
NoNode == ""
\* conID == "" and the pair standing for node + "-" + Itoa(c)
NoID == <<"", 0>>
NoErr == "nil"
RecvErrors == {"EOF", "Canceled", "Unavailable"}
SendError == "SendError"

\* the resource-name lists a request may carry
NameLists == {<<>>, <<Names[1]>>, <<Names[1], Names[2]>>, <<Names[2], Names[2]>>}

\* What the environment does in one run: the streams that are opened, the
\* number of requests each client sends, the name lists and node fields they
\* carry, the errors stream.Recv may return, the outcomes of stream.Send and
\* of the registry lookup, the runs of edsPushAll and the changes of the
\* service registry.
OneStream ==
    [streams |-> {"c1"},
     req |-> [c \in Conns |-> IF c = "c1" THEN MaxReq ELSE 0],
     lists |-> [c \in Conns |-> NameLists],
     nodes |-> Nodes \cup {NoNode},
     errs |-> RecvErrors, sendOk |-> BOOLEAN, resolveOk |-> BOOLEAN,
     cycles |-> 0, vers |-> 0, rpcs |-> 0]

OneStreamPushed ==
    [streams |-> {"c1"},
     req |-> [c \in Conns |-> IF c = "c1" THEN 1 ELSE 0],
     lists |-> [c \in Conns |-> {<<Names[1]>>, <<Names[1], Names[2]>>}],
     nodes |-> Nodes,
     errs |-> RecvErrors, sendOk |-> BOOLEAN, resolveOk |-> BOOLEAN,
     cycles |-> MaxCycle, vers |-> MaxVer, rpcs |-> 0]

TwoStreams ==
    [streams |-> Conns,
     req |-> [c \in Conns |-> 1],
     lists |-> [c \in Conns |-> {<<Names[1]>>}],
     nodes |-> Nodes \cup {NoNode},
     errs |-> RecvErrors, sendOk |-> BOOLEAN, resolveOk |-> BOOLEAN,
     cycles |-> 0, vers |-> 0, rpcs |-> 0]

TwoStreamsPushed ==
    [streams |-> Conns,
     req |-> [c \in Conns |-> 1],
     lists |-> [c \in Conns |->
                  IF c = "c1" THEN {<<Names[1], Names[2]>>} ELSE {<<Names[1]>>}],
     nodes |-> Nodes,
     errs |-> {}, sendOk |-> {TRUE}, resolveOk |-> {TRUE},
     cycles |-> 1, vers |-> 0, rpcs |-> MaxRpc]

\* a client that keeps sending while the handler is busy with the first request
Backlog ==
    [streams |-> {"c1"},
     req |-> [c \in Conns |-> IF c = "c1" THEN MaxReq + 1 ELSE 0],
     lists |-> [c \in Conns |-> {<<Names[1]>>}],
     nodes |-> Nodes,
     errs |-> {"Unavailable"}, sendOk |-> BOOLEAN, resolveOk |-> {TRUE},
     cycles |-> 0, vers |-> 0, rpcs |-> 0]

Plans == {OneStream, OneStreamPushed, TwoStreams, TwoStreamsPushed, Backlog}

\* no stream is opened and edsPushAll does not run
NoStream ==
    [streams |-> {},
     req |-> [c \in Conns |-> 0],
     lists |-> [c \in Conns |-> {}],
     nodes |-> {},
     errs |-> {}, sendOk |-> {}, resolveOk |-> {},
     cycles |-> 0, vers |-> 0, rpcs |-> 0]

\* the requests the client of connection c may send after it has sent k under
\* plan p; error detail answers a response, so the first request of a stream
\* carries none; seq is the request's position on the stream
Requests(p, c, k) ==
    [Node : p.nodes,
     ResourceNames : p.lists[c],
     ErrorDetail : IF k = 0 THEN {FALSE} ELSE BOOLEAN,
     seq : {k + 1}]

\* every prune is done by one connection's cleanup, once per name, so a name
\* is re-created at most once per connection
MaxCluster == (1 + Cardinality(Conns)) * Cardinality(NameSet)

(* ------------------------- endpoints (pure part) ----------------------- *)

ValidIPs == {"10.0.0.1", "10.0.0.2", "::1"}
AddressPool == <<"10.0.0.1", "not-an-ip", "10.0.0.2", "::1">>
ZonePool == <<"z1", "z1", "z2", "">>

\* what ServiceDiscovery.Instances returns at revision ver of the registry
Instances(ver) ==
    [k \in 1..(2 * ver) |->
        [Address |-> AddressPool[((k - 1) % 4) + 1],
         Port |-> 80,
         AvailabilityZone |-> ZonePool[((k - 1) % 4) + 1]]]

\* mutant: the address is not validated
newEndpointUnchecked(address, port) ==
    [err |-> FALSE,
     ep |-> <<[Address |-> address, PortValue |-> port,
               Ipv4Compat |-> address # "::1"]>>]

newEndpoint(address, port) ==
    IF address \notin ValidIPs
    THEN [err |-> TRUE, ep |-> <<>>]
    ELSE [err |-> FALSE,
          ep |-> <<[Address |-> address, PortValue |-> port,
                    Ipv4Compat |-> address # "::1"]>>]

RECURSIVE localityEpMap(_, _, _)
localityEpMap(instances, k, m) ==
    IF k > Len(instances) THEN m
    ELSE LET instance == instances[k]
             r == newEndpoint(instance.Address, instance.Port)
             locality == instance.AvailabilityZone
         IN IF r.err THEN localityEpMap(instances, k + 1, m)
            ELSE localityEpMap(instances, k + 1,
                   [z \in DOMAIN m \cup {locality} |->
                       IF z \in DOMAIN m /\ z # locality THEN m[z]
                       ELSE [Zone |-> locality,
                             LbEndpoints |->
                                 (IF z \in DOMAIN m THEN m[z].LbEndpoints ELSE <<>>)
                                 \o r.ep]])

\* the groups, as a set: the order of the returned slice is Go's map order
localityLbEndpointsFromInstances(instances) ==
    LET m == localityEpMap(instances, 1, <<>>)
    IN {m[z] : z \in DOMAIN m}

(* -------------------------------- state -------------------------------- *)

VARIABLES
    \* globals of eds.go
    edsClusterMutex, edsClusters, connectionNumber, clusters,
    \* the connection directory (addCon / removeCon) and the service registry
    adsClients, regVer,
    \* the client side of each stream and the reader goroutine
    recvd, readerPc, req, streamErr, reqChannel, reqClosed, receiveError,
    \* StreamEndpoints
    pc, discReq, conID, initialRequestReceived, con, pushChannel, deferred,
    idx, cur, locEps, resAny, skipped, ret, adds,
    \* edsPushAll
    pushPc, cycle, tmpMap, pending, clusterName, pushLocEps, clients, target,
    \* the environment's plan
    plan,
    \* localityLbEndpointsFromInstances called on its own: argument and result
    instances, out,
    \* what the calls of FetchEndpoints and StreamLoadStats returned, in order
    rpcRet

regVars == <<edsClusterMutex, edsClusters, connectionNumber, clusters, adsClients, regVer>>
readerVars == <<recvd, readerPc, req, streamErr, reqChannel, reqClosed, receiveError>>
handlerVars == <<pc, discReq, conID, initialRequestReceived, con, pushChannel,
                 deferred, idx, cur, locEps, resAny, skipped, ret, adds>>
pushVars == <<pushPc, cycle, tmpMap, pending, clusterName, pushLocEps, clients, target>>
envVars == <<plan, instances, out, rpcRet>>
vars == <<regVars, readerVars, handlerVars, pushVars, envVars>>

(* ------------------------ the registry of clusters --------------------- *)

\* time.Now(): a clock that never reads zero and never goes back
Now == 1 + cycle + regVer

\* &EdsCluster{discovery: s, EdsClients: map[string]*XdsConnection{}, FirstUse: ...}
NewEdsCluster ==
    [LoadAssignment |-> <<>>, EdsClients |-> <<>>, NonEmptyTime |-> 0, mutex |-> ""]

\* edsClusters[clusterName], 0 standing for nil
getEdsCluster(name) ==
    IF name \in DOMAIN edsClusters THEN edsClusters[name] ELSE 0

\* mutant: the test c == nil is missing
getOrAddEdsClusterAlwaysNew(name) ==
    [c |-> Len(clusters) + 1,
     edsClusters |-> [n \in DOMAIN edsClusters \cup {name} |->
                         IF n = name THEN Len(clusters) + 1 ELSE edsClusters[n]],
     clusters |-> Append(clusters, NewEdsCluster)]

\* the cluster returned, and the registry and the heap after the call
getOrAddEdsCluster(name) ==
    IF name \in DOMAIN edsClusters
    THEN [c |-> edsClusters[name], edsClusters |-> edsClusters, clusters |-> clusters]
    ELSE [c |-> Len(clusters) + 1,
          edsClusters |-> [n \in DOMAIN edsClusters \cup {name} |->
                              IF n = name THEN Len(clusters) + 1 ELSE edsClusters[n]],
          clusters |-> Append(clusters, NewEdsCluster)]

CanGetOrAdd(name) == name \in DOMAIN edsClusters \/ Len(clusters) < MaxCluster

\* edsClusterMutex.Lock() returns.  Every section under edsClusterMutex is
\* straight-line code over edsClusters and connectionNumber (eds.go 237-240,
\* 399-405, 447-449, 453-464, 492-496) and is one step together with its
\* Unlock(), so that the mutex is free again when the step is done.
RegistryUnlocked == edsClusterMutex = ""

\* c.mutex.Lock() returns
Unlocked(c) == clusters[c].mutex = ""

\* mutant: the mutex is not released
AfterUnlockStillHeld(owner) == owner

\* the owner of the mutex after Unlock()
AfterUnlock(owner) == ""

\* c.LoadAssignment under c.mutex
loadAssignment(c) == clusters[c].LoadAssignment

\* the ClusterLoadAssignment updateCluster builds from the instances it was given
NewLoadAssignment(name, ver) ==
    [ClusterName |-> name,
     Endpoints |-> localityLbEndpointsFromInstances(Instances(ver)),
     ver |-> ver]

\* mutant: the test of NonEmptyTime.IsZero() is missing
NonEmptyTimeAfterAnyWrite(old, la) ==
    IF Cardinality(la.Endpoints) > 0 THEN Now ELSE old

\* edsCluster.NonEmptyTime after updateCluster published la
NonEmptyTimeAfter(old, la) ==
    IF Cardinality(la.Endpoints) > 0 /\ old = 0 THEN Now ELSE old

\* the locked tail of updateCluster (eds.go 191-200)
updateClusterWrite(c, la) ==
    [clusters EXCEPT ![c].LoadAssignment = <<la>>,
                     ![c].NonEmptyTime = NonEmptyTimeAfter(@, la)]

\* c.EdsClients[node] = connection
PutClient(m, node, connection) ==
    [k \in DOMAIN m \cup {node} |-> IF k = node THEN connection ELSE m[k]]

\* delete(c.EdsClients, node)
DeleteKey(m, node) == [k \in DOMAIN m \ {node} |-> m[k]]

\* the connections that watch cluster c
Watchers(c) == {clusters[c].EdsClients[k] : k \in DOMAIN clusters[c].EdsClients}

\* mutant: the comparison with the connection is missing
RemovesClientAnyCon(m, node, connection) == node \in DOMAIN m

\* removeEdsCon goes on to delete: the key is present and maps to this connection
RemovesClient(m, node, connection) == node \in DOMAIN m /\ m[node] = connection

\* removeEdsCon prunes the cluster: len(c.EdsClients) == 0 after the delete
PrunesCluster(m) == DOMAIN m = {}

\* adsClients[conID] = con
addCon(m, id, connection) == PutClient(m, id, connection)

\* mutant: the increment of a second caller is lost
NextConnectionNumberLost(n) == IF n = 0 THEN 1 ELSE n

\* connectionNumber++ under edsClusterMutex
NextConnectionNumber(n) == n + 1

\* node + "-" + strconv.Itoa(int(c))
connectionID(node, c) == <<node, c>>

(* --------------------------------- Init -------------------------------- *)

\* everything but the environment
InitProgram ==
    /\ edsClusterMutex = ""
    /\ edsClusters = <<>>
    /\ connectionNumber = 0
    /\ clusters = <<>>
    /\ adsClients = <<>>
    /\ regVer = 0
    /\ recvd = [c \in Conns |-> 0]
    /\ readerPc = [c \in Conns |-> IF c \in plan.streams THEN "Recv" ELSE "none"]
    /\ req = [c \in Conns |-> <<>>]
    /\ streamErr = [c \in Conns |-> NoErr]
    /\ reqChannel = [c \in Conns |-> <<>>]
    /\ reqClosed = [c \in Conns |-> FALSE]
    /\ receiveError = [c \in Conns |-> NoErr]
    /\ pc = [c \in Conns |-> IF c \in plan.streams THEN "select" ELSE "none"]
    /\ discReq = [c \in Conns |-> <<>>]
    /\ conID = [c \in Conns |-> NoID]
    /\ initialRequestReceived = [c \in Conns |-> FALSE]
    /\ con = [c \in Conns |-> [Clusters |-> <<>>, ConID |-> NoID, added |-> FALSE]]
    /\ pushChannel = [c \in Conns |-> <<>>]
    /\ deferred = [c \in Conns |-> <<>>]
    /\ idx = [c \in Conns |-> 1]
    /\ cur = [c \in Conns |-> 0]
    /\ locEps = [c \in Conns |-> <<>>]
    /\ resAny = [c \in Conns |-> <<>>]
    /\ skipped = [c \in Conns |-> {}]
    /\ ret = [c \in Conns |-> "running"]
    /\ adds = [c \in Conns |-> 0]
    /\ pushPc = "idle"
    /\ cycle = 0
    /\ tmpMap = <<>>
    /\ pending = {}
    /\ clusterName = ""
    /\ pushLocEps = <<>>
    /\ clients = {}
    /\ target = <<>>
    /\ rpcRet = <<>>

Init ==
    /\ plan \in Plans
    /\ instances = <<>>
    /\ out = <<>>
    /\ InitProgram

(* --------------------------- the reader goroutine ----------------------- *)

\* mutant: cancellation is not recognised as a clean end
ReceiveErrorOfEofOnly(err) == IF err = "EOF" THEN NoErr ELSE err

\* what the reader leaves in receiveError for the error stream.Recv returned
ReceiveErrorOf(err) == IF err \in {"Canceled", "EOF"} THEN NoErr ELSE err

\* stream.Recv() returns a request
ReaderRecv(c) ==
    /\ readerPc[c] = "Recv"
    /\ recvd[c] < plan.req[c]
    /\ \E r \in Requests(plan, c, recvd[c]) :
        /\ req' = [req EXCEPT ![c] = <<r>>]
        /\ recvd' = [recvd EXCEPT ![c] = @ + 1]
        /\ readerPc' = [readerPc EXCEPT ![c] = "forward"]
    /\ UNCHANGED <<streamErr, reqChannel, reqClosed, receiveError>>
    /\ UNCHANGED <<regVars, handlerVars, pushVars>>
    /\ UNCHANGED envVars

\* stream.Recv() returns an error: the reader records it and closes reqChannel
ReaderRecvError(c) ==
    /\ readerPc[c] = "Recv"
    /\ \E err \in plan.errs :
        /\ streamErr' = [streamErr EXCEPT ![c] = err]
        /\ receiveError' = [receiveError EXCEPT ![c] = ReceiveErrorOf(err)]
    /\ reqClosed' = [reqClosed EXCEPT ![c] = TRUE]
    /\ readerPc' = [readerPc EXCEPT ![c] = "closed"]
    /\ UNCHANGED <<recvd, req, reqChannel>>
    /\ UNCHANGED <<regVars, handlerVars, pushVars>>
    /\ UNCHANGED envVars

\* reqChannel <- req, which blocks while the one slot is taken
ReaderForward(c) ==
    /\ readerPc[c] = "forward"
    /\ reqChannel[c] = <<>>
    /\ reqChannel' = [reqChannel EXCEPT ![c] = req[c]]
    /\ req' = [req EXCEPT ![c] = <<>>]
    /\ readerPc' = [readerPc EXCEPT ![c] = "Recv"]
    /\ UNCHANGED <<recvd, streamErr, reqClosed, receiveError>>
    /\ UNCHANGED <<regVars, handlerVars, pushVars>>
    /\ UNCHANGED envVars

(* ----------------------- StreamEndpoints: the loop ---------------------- *)

\* mutant: the comparison of the lengths is reversed
IsResyncReversed(received, clusters2, Clusters) ==
    received /\ Len(clusters2) < Len(Clusters)

\* eds.go 298-305: a later request with a longer list is treated as an initial one
IsResync(received, clusters2, Clusters) ==
    received /\ Len(clusters2) > Len(Clusters)

\* initialRequestReceived as tested on line 309
ReceivedAfterResync(received, clusters2, Clusters) ==
    IF IsResync(received, clusters2, Clusters) THEN FALSE ELSE received

\* mutant: a request with error detail is not taken as an ACK
IsAckUnlessError(received, clusters2, Clusters, errorDetail) ==
    ReceivedAfterResync(received, clusters2, Clusters) /\ Len(Clusters) > 0
        /\ ~errorDetail

\* eds.go 309-320: the request is an ACK and the loop continues
IsAck(received, clusters2, Clusters, errorDetail) ==
    ReceivedAfterResync(received, clusters2, Clusters) /\ Len(Clusters) > 0

\* mutant: the recorded list is not updated
RecordedClustersStale(old, clusters2) == old

\* eds.go 324: con.Clusters = discReq.GetResourceNames()
RecordedClusters(old, clusters2) == clusters2

\* eds.go 293: the request assigns the connection its id
AssignsID(id, r) == id = NoID /\ r.Node # NoNode

\* eds.go 336: the connection is added to the directory
AddsCon(added) == ~added

\* eds.go 345: the loop body ends with a push
Pushes(Clusters) == Len(Clusters) > 0

\* the statement after the select
AfterSelect(Clusters) == IF Pushes(Clusters) THEN "pushEds" ELSE "select"

\* the handler returns: its deferred removeCon runs first, if there is one
Return(c) == IF deferred[c] # <<>> THEN "removeCon" ELSE "returned"

\* case discReq, ok = <-reqChannel, ok
SelectRequest(c) ==
    /\ pc[c] = "select"
    /\ reqChannel[c] # <<>>
    /\ discReq' = [discReq EXCEPT ![c] = reqChannel[c]]
    /\ reqChannel' = [reqChannel EXCEPT ![c] = <<>>]
    /\ pc' = [pc EXCEPT ![c] = "request"]
    /\ UNCHANGED <<recvd, readerPc, req, streamErr, reqClosed, receiveError>>
    /\ UNCHANGED <<conID, initialRequestReceived, con, pushChannel, deferred, idx,
                   cur, locEps, resAny, skipped, ret, adds>>
    /\ UNCHANGED <<regVars, pushVars>>
    /\ UNCHANGED envVars

\* case discReq, ok = <-reqChannel, !ok: return receiveError
SelectClosed(c) ==
    /\ pc[c] = "select"
    /\ reqChannel[c] = <<>>
    /\ reqClosed[c]
    /\ ret' = [ret EXCEPT ![c] = receiveError[c]]
    /\ idx' = [idx EXCEPT ![c] = 1]
    /\ pc' = [pc EXCEPT ![c] = Return(c)]
    /\ UNCHANGED <<discReq, conID, initialRequestReceived, con, pushChannel, deferred,
                   cur, locEps, resAny, skipped, adds>>
    /\ UNCHANGED <<regVars, readerVars, pushVars>>
    /\ UNCHANGED envVars

\* case <-con.pushChannel
SelectPush(c) ==
    /\ pc[c] = "select"
    /\ pushChannel[c] # <<>>
    /\ pushChannel' = [pushChannel EXCEPT ![c] = <<>>]
    /\ idx' = [idx EXCEPT ![c] = 1]
    /\ resAny' = [resAny EXCEPT ![c] = <<>>]
    /\ skipped' = [skipped EXCEPT ![c] = {}]
    /\ pc' = [pc EXCEPT ![c] = AfterSelect(con[c].Clusters)]
    /\ UNCHANGED <<discReq, conID, initialRequestReceived, con, deferred,
                   cur, locEps, ret, adds>>
    /\ UNCHANGED <<regVars, readerVars, pushVars>>
    /\ UNCHANGED envVars

\* eds.go 292-326: the request is handled up to the loop over con.Clusters
HandleRequest(c) ==
    /\ pc[c] = "request"
    /\ AssignsID(conID[c], discReq[c][1]) => RegistryUnlocked
    /\ LET r == discReq[c][1]
           n == IF AssignsID(conID[c], r)
                THEN NextConnectionNumber(connectionNumber) ELSE connectionNumber
           id == IF AssignsID(conID[c], r) THEN connectionID(r.Node, n) ELSE conID[c]
           clusters2 == r.ResourceNames
           old == con[c].Clusters
       IN /\ connectionNumber' = n
          /\ conID' = [conID EXCEPT ![c] = id]
          /\ IF IsAck(initialRequestReceived[c], clusters2, old, r.ErrorDetail)
             THEN /\ pc' = [pc EXCEPT ![c] = "select"]
                  /\ initialRequestReceived' =
                         [initialRequestReceived EXCEPT ![c] =
                             ReceivedAfterResync(@, clusters2, old)]
                  /\ UNCHANGED <<con, idx, resAny, skipped>>
             ELSE /\ con' = [con EXCEPT ![c].Clusters = RecordedClusters(old, clusters2),
                                          ![c].ConID = id]
                  /\ initialRequestReceived' = [initialRequestReceived EXCEPT ![c] = TRUE]
                  /\ idx' = [idx EXCEPT ![c] = 1]
                  /\ resAny' = [resAny EXCEPT ![c] = <<>>]
                  /\ skipped' = [skipped EXCEPT ![c] = {}]
                  /\ pc' = [pc EXCEPT ![c] =
                               IF Len(RecordedClusters(old, clusters2)) > 0
                               THEN "addEdsCon" ELSE "addCon"]
    /\ UNCHANGED <<discReq, pushChannel, deferred, cur, locEps, ret, adds>>
    /\ UNCHANGED <<edsClusterMutex, edsClusters, clusters, adsClients, regVer>>
    /\ UNCHANGED <<readerVars, pushVars>>
    /\ UNCHANGED envVars

\* addEdsCon, eds.go 425: c := s.getOrAddEdsCluster(clusterName)
AddEdsConGet(c) ==
    /\ pc[c] = "addEdsCon"
    /\ RegistryUnlocked
    /\ CanGetOrAdd(con[c].Clusters[idx[c]])
    /\ LET g == getOrAddEdsCluster(con[c].Clusters[idx[c]])
       IN /\ cur' = [cur EXCEPT ![c] = g.c]
          /\ edsClusters' = g.edsClusters
          /\ clusters' = g.clusters
    /\ pc' = [pc EXCEPT ![c] = "addEdsConLock"]
    /\ UNCHANGED <<discReq, conID, initialRequestReceived, con, pushChannel, deferred,
                   idx, locEps, resAny, skipped, ret, adds>>
    /\ UNCHANGED <<edsClusterMutex, connectionNumber, adsClients, regVer>>
    /\ UNCHANGED <<readerVars, pushVars>>
    /\ UNCHANGED envVars

\* addEdsCon, eds.go 439-441: c.EdsClients[node] = connection under c.mutex
AddEdsConLock(c) ==
    /\ pc[c] = "addEdsConLock"
    /\ Unlocked(cur[c])
    /\ clusters' = [clusters EXCEPT ![cur[c]].EdsClients = PutClient(@, conID[c], c)]
    /\ idx' = [idx EXCEPT ![c] = @ + 1]
    /\ cur' = [cur EXCEPT ![c] = 0]
    /\ pc' = [pc EXCEPT ![c] =
                 IF idx[c] < Len(con[c].Clusters) THEN "addEdsCon" ELSE "addCon"]
    /\ UNCHANGED <<discReq, conID, initialRequestReceived, con, pushChannel, deferred,
                   locEps, resAny, skipped, ret, adds>>
    /\ UNCHANGED <<edsClusterMutex, edsClusters, connectionNumber, adsClients, regVer>>
    /\ UNCHANGED <<readerVars, pushVars>>
    /\ UNCHANGED envVars

\* eds.go 336-340: addCon and the deferred removeCon(conID, con), whose
\* arguments are evaluated here
AddCon(c) ==
    /\ pc[c] = "addCon"
    /\ IF AddsCon(con[c].added)
       THEN /\ con' = [con EXCEPT ![c].added = TRUE]
            /\ adsClients' = addCon(adsClients, conID[c], c)
            /\ deferred' = [deferred EXCEPT ![c] = <<conID[c]>>]
            /\ adds' = [adds EXCEPT ![c] = IF @ < 2 THEN @ + 1 ELSE @]
       ELSE UNCHANGED <<con, adsClients, deferred, adds>>
    /\ idx' = [idx EXCEPT ![c] = 1]
    /\ pc' = [pc EXCEPT ![c] = AfterSelect(con[c].Clusters)]
    /\ UNCHANGED <<discReq, conID, initialRequestReceived, pushChannel,
                   cur, locEps, resAny, skipped, ret>>
    /\ UNCHANGED <<edsClusterMutex, edsClusters, connectionNumber, clusters, regVer>>
    /\ UNCHANGED <<readerVars, pushVars>>
    /\ UNCHANGED envVars

(* -------------------------------- pushEds ------------------------------- *)

\* the loop over con.Clusters goes to its next name, or to the send
NextCluster(c) == IF idx[c] < Len(con[c].Clusters) THEN "pushEds" ELSE "Send"

\* mutant: the continue is missing and an empty assignment is appended
ResAfterUpdateErrorAppends(res) ==
    Append(res, [ClusterName |-> "", Endpoints |-> {}, ver |-> 0])

\* resAny after updateCluster failed for a cluster (eds.go 366-369: continue)
ResAfterUpdateError(res) == res

\* eds.go 363: c := s.getOrAddEdsCluster(clusterName)
PushEdsGet(c) ==
    /\ pc[c] = "pushEds"
    /\ RegistryUnlocked
    /\ CanGetOrAdd(con[c].Clusters[idx[c]])
    /\ LET g == getOrAddEdsCluster(con[c].Clusters[idx[c]])
       IN /\ cur' = [cur EXCEPT ![c] = g.c]
          /\ edsClusters' = g.edsClusters
          /\ clusters' = g.clusters
    /\ pc' = [pc EXCEPT ![c] = "loadAssignment"]
    /\ UNCHANGED <<discReq, conID, initialRequestReceived, con, pushChannel, deferred,
                   idx, locEps, resAny, skipped, ret, adds>>
    /\ UNCHANGED <<edsClusterMutex, connectionNumber, adsClients, regVer>>
    /\ UNCHANGED <<readerVars, pushVars>>
    /\ UNCHANGED envVars

\* eds.go 364-365: l := loadAssignment(c); a nil l goes to updateCluster
PushEdsLoad(c) ==
    /\ pc[c] = "loadAssignment"
    /\ Unlocked(cur[c])
    /\ LET l == loadAssignment(cur[c])
       IN IF l = <<>>
          THEN /\ pc' = [pc EXCEPT ![c] = "updateCluster"]
               /\ UNCHANGED <<resAny, idx, cur>>
          ELSE /\ resAny' = [resAny EXCEPT ![c] = Append(@, l[1])]
               /\ idx' = [idx EXCEPT ![c] = @ + 1]
               /\ cur' = [cur EXCEPT ![c] = 0]
               /\ pc' = [pc EXCEPT ![c] = NextCluster(c)]
    /\ UNCHANGED <<discReq, conID, initialRequestReceived, con, pushChannel, deferred,
                   locEps, skipped, ret, adds>>
    /\ UNCHANGED <<regVars, readerVars, pushVars>>
    /\ UNCHANGED envVars

\* updateCluster, eds.go 177-182: the registry is asked, with no lock held;
\* an error skips the cluster
PushEdsUpdateQuery(c) ==
    /\ pc[c] = "updateCluster"
    /\ \E ok \in plan.resolveOk :
        IF ok
        THEN /\ locEps' = [locEps EXCEPT ![c] =
                              <<NewLoadAssignment(con[c].Clusters[idx[c]], regVer)>>]
             /\ pc' = [pc EXCEPT ![c] = "updateClusterWrite"]
             /\ UNCHANGED <<resAny, skipped, idx, cur>>
        ELSE /\ resAny' = [resAny EXCEPT ![c] = ResAfterUpdateError(@)]
             /\ skipped' = [skipped EXCEPT ![c] = @ \cup {idx[c]}]
             /\ idx' = [idx EXCEPT ![c] = @ + 1]
             /\ cur' = [cur EXCEPT ![c] = 0]
             /\ pc' = [pc EXCEPT ![c] = NextCluster(c)]
             /\ UNCHANGED locEps
    /\ UNCHANGED <<discReq, conID, initialRequestReceived, con, pushChannel, deferred,
                   ret, adds>>
    /\ UNCHANGED <<regVars, readerVars, pushVars>>
    /\ UNCHANGED envVars

\* updateCluster, eds.go 191-200
PushEdsUpdateWrite(c) ==
    /\ pc[c] = "updateClusterWrite"
    /\ Unlocked(cur[c])
    /\ clusters' = updateClusterWrite(cur[c], locEps[c][1])
    /\ locEps' = [locEps EXCEPT ![c] = <<>>]
    /\ pc' = [pc EXCEPT ![c] = "reload"]
    /\ UNCHANGED <<discReq, conID, initialRequestReceived, con, pushChannel, deferred,
                   idx, cur, resAny, skipped, ret, adds>>
    /\ UNCHANGED <<edsClusterMutex, edsClusters, connectionNumber, adsClients, regVer>>
    /\ UNCHANGED <<readerVars, pushVars>>
    /\ UNCHANGED envVars

\* eds.go 370-381: l = loadAssignment(c), and l is appended to the response
PushEdsReload(c) ==
    /\ pc[c] = "reload"
    /\ Unlocked(cur[c])
    /\ resAny' = [resAny EXCEPT ![c] = @ \o loadAssignment(cur[c])]
    /\ idx' = [idx EXCEPT ![c] = @ + 1]
    /\ cur' = [cur EXCEPT ![c] = 0]
    /\ pc' = [pc EXCEPT ![c] = NextCluster(c)]
    /\ UNCHANGED <<discReq, conID, initialRequestReceived, con, pushChannel, deferred,
                   locEps, skipped, ret, adds>>
    /\ UNCHANGED <<regVars, readerVars, pushVars>>
    /\ UNCHANGED envVars

\* eds.go 384-389 and 346-349: con.stream.Send(response); a failure ends the handler
Send(c) ==
    /\ pc[c] = "Send"
    /\ \E ok \in plan.sendOk :
        IF ok
        THEN /\ pc' = [pc EXCEPT ![c] = "select"]
             /\ resAny' = [resAny EXCEPT ![c] = <<>>]
             /\ skipped' = [skipped EXCEPT ![c] = {}]
             /\ idx' = [idx EXCEPT ![c] = 1]
             /\ UNCHANGED ret
        ELSE /\ ret' = [ret EXCEPT ![c] = SendError]
             /\ idx' = [idx EXCEPT ![c] = 1]
             /\ pc' = [pc EXCEPT ![c] = Return(c)]
             /\ resAny' = [resAny EXCEPT ![c] = <<>>]
             /\ skipped' = [skipped EXCEPT ![c] = {}]
    /\ UNCHANGED <<discReq, conID, initialRequestReceived, con, pushChannel, deferred,
                   cur, locEps, adds>>
    /\ UNCHANGED <<regVars, readerVars, pushVars>>
    /\ UNCHANGED envVars

(* ------------------- the deferred cleanup: removeCon -------------------- *)

\* removeCon is not part of eds.go: it removes the connection as watcher
\* from every resource it was watching, the connection's recorded list, and
\* then from the directory
RemoveConNames(c) == con[c].Clusters

\* removeCon calls removeEdsCon for the next name of con.Clusters;
\* removeEdsCon, eds.go 470-474: c := s.getEdsCluster(clusterName)
RemoveEdsConGet(c) ==
    /\ pc[c] = "removeCon"
    /\ idx[c] <= Len(RemoveConNames(c))
    /\ RegistryUnlocked
    /\ LET g == getEdsCluster(RemoveConNames(c)[idx[c]])
       IN IF g = 0
          THEN /\ idx' = [idx EXCEPT ![c] = @ + 1]
               /\ UNCHANGED <<pc, cur>>
          ELSE /\ cur' = [cur EXCEPT ![c] = g]
               /\ pc' = [pc EXCEPT ![c] = "removeEdsConLock"]
               /\ UNCHANGED idx
    /\ UNCHANGED <<discReq, conID, initialRequestReceived, con, pushChannel, deferred,
                   locEps, resAny, skipped, ret, adds>>
    /\ UNCHANGED <<regVars, readerVars, pushVars>>
    /\ UNCHANGED envVars

\* removeEdsCon, eds.go 476-491: c.mutex.Lock(); a key that is absent or maps
\* to another connection returns; delete(c.EdsClients, node); when the cluster
\* has no watcher left the handler keeps c.mutex and goes on to
\* edsClusterMutex.Lock() (492), else the deferred c.mutex.Unlock() runs
RemoveEdsConLock(c) ==
    /\ pc[c] = "removeEdsConLock"
    /\ Unlocked(cur[c])
    /\ LET m == clusters[cur[c]].EdsClients
           node == deferred[c][1]
       IN IF RemovesClient(m, node, c)
          THEN IF PrunesCluster(DeleteKey(m, node))
               THEN /\ clusters' = [clusters EXCEPT ![cur[c]].EdsClients = DeleteKey(m, node),
                                                    ![cur[c]].mutex = c]
                    /\ pc' = [pc EXCEPT ![c] = "removeEdsConPrune"]
                    /\ UNCHANGED <<idx, cur>>
               ELSE /\ clusters' = [clusters EXCEPT ![cur[c]].EdsClients = DeleteKey(m, node)]
                    /\ idx' = [idx EXCEPT ![c] = @ + 1]
                    /\ cur' = [cur EXCEPT ![c] = 0]
                    /\ pc' = [pc EXCEPT ![c] = "removeCon"]
          ELSE /\ idx' = [idx EXCEPT ![c] = @ + 1]
               /\ cur' = [cur EXCEPT ![c] = 0]
               /\ pc' = [pc EXCEPT ![c] = "removeCon"]
               /\ UNCHANGED clusters
    /\ UNCHANGED <<discReq, conID, initialRequestReceived, con, pushChannel, deferred,
                   locEps, resAny, skipped, ret, adds>>
    /\ UNCHANGED <<edsClusterMutex, edsClusters, connectionNumber, adsClients, regVer>>
    /\ UNCHANGED <<readerVars, pushVars>>
    /\ UNCHANGED envVars

\* removeEdsCon, eds.go 492-496: edsClusterMutex.Lock() returns with c.mutex
\* still held; delete(edsClusters, clusterName); the two deferred Unlock()
\* run, neither of which waits
RemoveEdsConPrune(c) ==
    /\ pc[c] = "removeEdsConPrune"
    /\ RegistryUnlocked
    /\ edsClusters' = DeleteKey(edsClusters, RemoveConNames(c)[idx[c]])
    /\ clusters' = [clusters EXCEPT ![cur[c]].mutex = AfterUnlock(@)]
    /\ idx' = [idx EXCEPT ![c] = @ + 1]
    /\ cur' = [cur EXCEPT ![c] = 0]
    /\ pc' = [pc EXCEPT ![c] = "removeCon"]
    /\ UNCHANGED <<discReq, conID, initialRequestReceived, con, pushChannel, deferred,
                   locEps, resAny, skipped, ret, adds>>
    /\ UNCHANGED <<edsClusterMutex, connectionNumber, adsClients, regVer>>
    /\ UNCHANGED <<readerVars, pushVars>>
    /\ UNCHANGED envVars

\* removeCon ends: delete(adsClients, conID); the handler has returned
RemoveConDone(c) ==
    /\ pc[c] = "removeCon"
    /\ idx[c] > Len(RemoveConNames(c))
    /\ adsClients' = DeleteKey(adsClients, deferred[c][1])
    /\ idx' = [idx EXCEPT ![c] = 1]
    /\ pc' = [pc EXCEPT ![c] = "returned"]
    /\ UNCHANGED <<discReq, conID, initialRequestReceived, con, pushChannel, deferred,
                   cur, locEps, resAny, skipped, ret, adds>>
    /\ UNCHANGED <<edsClusterMutex, edsClusters, connectionNumber, clusters, regVer>>
    /\ UNCHANGED <<readerVars, pushVars>>
    /\ UNCHANGED envVars

(* ------------------------------ edsPushAll ------------------------------ *)

\* the statement after one cluster of tmpMap is done
NextPush(left) == IF left = {} THEN "idle" ELSE "updateCluster"

\* mutant: the error ends the cycle (return in place of continue)
AfterUpdateErrorReturns(left) == "idle"

\* eds.go 408-411: updateCluster failed, the range goes on with the next cluster
AfterUpdateError(left) == NextPush(left)

\* tmpMap, which is dropped when edsPushAll returns
TmpMapAfter(left, m) == IF left = {} THEN <<>> ELSE m

\* the first key the range over EdsClients yields, if any
FirstTarget(keys, k) == IF keys = {} THEN <<>> ELSE <<k>>

\* eds.go 399-405: tmpMap is a copy of edsClusters
PushAllStart ==
    /\ pushPc = "idle"
    /\ RegistryUnlocked
    /\ cycle < plan.cycles
    /\ cycle' = cycle + 1
    /\ tmpMap' = edsClusters
    /\ pending' = DOMAIN edsClusters
    /\ pushPc' = NextPush(DOMAIN edsClusters)
    /\ UNCHANGED <<clusterName, pushLocEps, clients, target>>
    /\ UNCHANGED <<regVars, readerVars, handlerVars>>
    /\ UNCHANGED envVars

\* eds.go 407-411: the next cluster of tmpMap; updateCluster asks the registry
PushAllUpdateQuery ==
    /\ pushPc = "updateCluster"
    /\ \E name \in pending, ok \in plan.resolveOk :
        /\ pending' = pending \ {name}
        /\ IF ok
           THEN /\ clusterName' = name
                /\ pushLocEps' = <<NewLoadAssignment(name, regVer)>>
                /\ pushPc' = "updateClusterWrite"
                /\ UNCHANGED tmpMap
           ELSE /\ clusterName' = ""
                /\ pushPc' = AfterUpdateError(pending \ {name})
                /\ tmpMap' = TmpMapAfter(pending \ {name}, tmpMap)
                /\ UNCHANGED pushLocEps
    /\ UNCHANGED <<cycle, clients, target>>
    /\ UNCHANGED <<regVars, readerVars, handlerVars>>
    /\ UNCHANGED envVars

\* updateCluster, eds.go 191-200
PushAllUpdateWrite ==
    /\ pushPc = "updateClusterWrite"
    /\ Unlocked(tmpMap[clusterName])
    /\ clusters' = updateClusterWrite(tmpMap[clusterName], pushLocEps[1])
    /\ pushLocEps' = <<>>
    /\ pushPc' = "Lock"
    /\ UNCHANGED <<cycle, tmpMap, pending, clusterName, clients, target>>
    /\ UNCHANGED <<edsClusterMutex, edsClusters, connectionNumber, adsClients, regVer>>
    /\ UNCHANGED <<readerVars, handlerVars>>
    /\ UNCHANGED envVars

\* eds.go 412-413: edsCluster.mutex.Lock() and the range over EdsClients starts
PushAllLock ==
    /\ pushPc = "Lock"
    /\ Unlocked(tmpMap[clusterName])
    /\ clusters' = [clusters EXCEPT ![tmpMap[clusterName]].mutex = "edsPushAll"]
    /\ LET keys == DOMAIN clusters[tmpMap[clusterName]].EdsClients
       IN \/ /\ keys = {}
             /\ target' = <<>>
             /\ clients' = {}
          \/ \E k \in keys :
             /\ target' = FirstTarget(keys, k)
             /\ clients' = keys \ {k}
    /\ pushPc' = "signal"
    /\ UNCHANGED <<cycle, tmpMap, pending, clusterName, pushLocEps>>
    /\ UNCHANGED <<edsClusterMutex, edsClusters, connectionNumber, adsClients, regVer>>
    /\ UNCHANGED <<readerVars, handlerVars>>
    /\ UNCHANGED envVars

\* &XdsEvent{clusters: []string{clusterName}}
XdsEvent(name) == [clusters |-> <<name>>]

\* edsCon.pushChannel <- &XdsEvent{...} can proceed
CanSignal(ch) == ch = <<>>

\* the channel after the send
Signalled(ch, ev) == Append(ch, ev)

\* eds.go 414-416: the send to the next watcher, with edsCluster.mutex held
PushAllSignal ==
    /\ pushPc = "signal"
    /\ target # <<>>
    /\ LET edsCon == clusters[tmpMap[clusterName]].EdsClients[target[1]]
       IN /\ CanSignal(pushChannel[edsCon])
          /\ pushChannel' = [pushChannel EXCEPT ![edsCon] =
                                Signalled(@, XdsEvent(clusterName))]
    /\ \/ /\ clients = {}
          /\ target' = <<>>
          /\ clients' = {}
       \/ \E k \in clients :
          /\ target' = <<k>>
          /\ clients' = clients \ {k}
    /\ UNCHANGED <<pushPc, cycle, tmpMap, pending, clusterName, pushLocEps>>
    /\ UNCHANGED <<pc, discReq, conID, initialRequestReceived, con, deferred, idx, cur,
                   locEps, resAny, skipped, ret, adds>>
    /\ UNCHANGED <<regVars, readerVars>>
    /\ UNCHANGED envVars

\* eds.go 418: edsCluster.mutex.Unlock()
PushAllUnlock ==
    /\ pushPc = "signal"
    /\ target = <<>>
    /\ clusters' = [clusters EXCEPT ![tmpMap[clusterName]].mutex = AfterUnlock(@)]
    /\ pushPc' = NextPush(pending)
    /\ UNCHANGED pushLocEps
    /\ clusterName' = ""
    /\ tmpMap' = TmpMapAfter(pending, tmpMap)
    /\ UNCHANGED <<cycle, pending, clients, target>>
    /\ UNCHANGED <<edsClusterMutex, edsClusters, connectionNumber, adsClients, regVer>>
    /\ UNCHANGED <<readerVars, handlerVars>>
    /\ UNCHANGED envVars

(* --------------------------- the environment ---------------------------- *)

\* the service registry's instances change
RegistryChange ==
    /\ regVer < plan.vers
    /\ regVer' = regVer + 1
    /\ UNCHANGED <<edsClusterMutex, edsClusters, connectionNumber, clusters, adsClients>>
    /\ UNCHANGED <<readerVars, handlerVars, pushVars>>
    /\ UNCHANGED envVars

(* ------------------------ the unsupported methods ----------------------- *)

\* mutant: an empty response and no error
FetchEndpointsResultEmpty(request) == [resp |-> <<"DiscoveryResponse">>, err |-> NoErr]

\* eds.go 501: return nil, errors.New("not implemented")
FetchEndpointsResult(request) == [resp |-> <<>>, err |-> "not implemented"]

\* eds.go 506: return errors.New("unsupported streaming method")
StreamLoadStatsResult(stream) == [resp |-> <<>>, err |-> "unsupported streaming method"]

FetchEndpoints ==
    /\ Len(rpcRet) < plan.rpcs
    /\ \E r \in Requests(plan, "c1", 0) \cup Requests(plan, "c1", 1) :
        rpcRet' = Append(rpcRet, FetchEndpointsResult(r))
    /\ UNCHANGED <<plan, instances, out>>
    /\ UNCHANGED <<regVars, readerVars, handlerVars, pushVars>>

StreamLoadStats ==
    /\ Len(rpcRet) < plan.rpcs
    /\ \E stream \in Conns :
        rpcRet' = Append(rpcRet, StreamLoadStatsResult(stream))
    /\ UNCHANGED <<plan, instances, out>>
    /\ UNCHANGED <<regVars, readerVars, handlerVars, pushVars>>

Unsupported == FetchEndpoints \/ StreamLoadStats

Reader(c) == ReaderRecv(c) \/ ReaderRecvError(c) \/ ReaderForward(c)

Handler(c) ==
    \/ SelectRequest(c) \/ SelectClosed(c) \/ SelectPush(c) \/ HandleRequest(c)
    \/ AddEdsConGet(c) \/ AddEdsConLock(c) \/ AddCon(c)
    \/ PushEdsGet(c) \/ PushEdsLoad(c) \/ PushEdsUpdateQuery(c)
    \/ PushEdsUpdateWrite(c) \/ PushEdsReload(c) \/ Send(c)
    \/ RemoveEdsConGet(c) \/ RemoveEdsConLock(c) \/ RemoveEdsConPrune(c)
    \/ RemoveConDone(c)

PushAll ==
    \/ PushAllStart \/ PushAllUpdateQuery \/ PushAllUpdateWrite
    \/ PushAllLock \/ PushAllSignal \/ PushAllUnlock

Next ==
    \/ \E c \in Conns : Reader(c)
    \/ \E c \in Conns : Handler(c)
    \/ PushAll
    \/ RegistryChange
    \/ Unsupported

Spec == Init /\ [][Next]_vars

(* ------------- localityLbEndpointsFromInstances on its own -------------- *)

\* the instances a registry may return: valid IPv4 and IPv6 addresses and one
\* that does not parse, in two zones and in none
InstanceKinds ==
    [Address : {"10.0.0.1", "not-an-ip", "::1"},
     Port : {80},
     AvailabilityZone : {"z1", "z2", ""}]

InstanceLists == UNION {[1..n -> InstanceKinds] : n \in 0..MaxInstances}

InitGrouping ==
    /\ plan = NoStream
    /\ instances \in InstanceLists
    /\ out = <<>>
    /\ InitProgram

\* out := localityLbEndpointsFromInstances(instances), <<>> standing for no result yet
Group ==
    /\ out = <<>>
    /\ out' = <<localityLbEndpointsFromInstances(instances)>>
    /\ UNCHANGED <<plan, instances, rpcRet>>
    /\ UNCHANGED <<regVars, readerVars, handlerVars, pushVars>>

NextGrouping == Group

SpecGrouping == InitGrouping /\ [][NextGrouping]_vars

(* ------------------------------ vocabulary ------------------------------ *)

\* the stream handler of c is running
Live(c) == pc[c] \notin {"none", "returned"}

\* c has processed a first-branch request and watches at least one name
Established(c) == Live(c) /\ initialRequestReceived[c] /\ Len(con[c].Clusters) > 0

\* the names of con.Clusters
Watched(c) == {con[c].Clusters[k] : k \in 1..Len(con[c].Clusters)}

\* the connection edsPushAll is about to signal
Target == clusters[tmpMap[clusterName]].EdsClients[target[1]]

\* edsPushAll is at its send to c and c's slot is taken
BlockedOn(c) ==
    /\ pushPc = "signal"
    /\ target # <<>>
    /\ Target = c
    /\ pushChannel[c] # <<>>

\* the handler of c is at a Lock() of the cluster mutex edsPushAll holds
WaitsForPush(c) ==
    /\ pc[c] \in {"addEdsConLock", "loadAssignment", "updateClusterWrite", "reload",
                 "removeEdsConLock"}
    /\ pushPc = "signal"
    /\ cur[c] = tmpMap[clusterName]

(* -------------------------------- claims -------------------------------- *)

\* C1 (broadcast delivery), in the form a finite run refutes: when every
\* connection is Established and watches name n, and a connection carries the
\* signal edsPushAll set for n, that connection still has to send its response,
\* so the system has not come to a stop.
C1_SignalledConnectionSends ==
    \A n \in NameSet :
        ( /\ \A c \in Conns : Established(c) /\ n \in Watched(c)
          /\ \E c \in Conns : pushChannel[c] = <<XdsEvent(n)>> )
        => ENABLED Next

\* C2 (signal coalescing): when edsPushAll signals a watcher whose one-slot
\* signal is already set, it goes on without waiting: its send is enabled.
C2_SignalNeverWaits ==
    (pushPc = "signal" /\ target # <<>> /\ pushChannel[Target] # <<>>)
    => ENABLED PushAllSignal

\* C3 (cycle completion and isolation), its safety part: no state has
\* edsPushAll, holding a cluster mutex, waiting for the slot of a connection
\* whose handler waits for that mutex or has returned.
C3_NoMutualWait ==
    \A c \in Conns : ~(BlockedOn(c) /\ (WaitsForPush(c) \/ pc[c] = "returned"))

\* C4 (no dead watcher): once the handler of a connection has returned, the
\* connection watches no cluster of the registry.  Stated for the connections
\* that had their identity when they were added to the directory, so that the
\* cleanup is called with the key they are registered under.
C4_NoDeadWatcher ==
    \A c \in Conns :
        (pc[c] = "returned" /\ deferred[c] = <<conID[c]>>) =>
            \A n \in DOMAIN edsClusters : c \notin Watchers(edsClusters[n])

\* the step of removeEdsCon that takes the cluster's mutex
RemoveStep(c) == pc[c] = "removeEdsConLock" /\ pc'[c] # "removeEdsConLock"

\* the step of removeEdsCon that takes edsClusterMutex with the cluster's held
PruneStep(c) == pc[c] = "removeEdsConPrune" /\ pc'[c] # "removeEdsConPrune"

\* C5 (watcher-count pruning): a removeEdsCon that removes the last watcher
\* goes on, with the cluster's mutex, to remove the name from the registry,
\* and no watcher is added in between; a name leaves the registry only when
\* its cluster has no watcher left; a removeEdsCon whose key is absent or maps
\* to another connection changes neither the watchers nor the registry.
C5_WatcherCountPruning ==
    [][ /\ \A c \in Conns :
            RemoveStep(c) =>
                LET m == clusters[cur[c]].EdsClients
                    node == deferred[c][1]
                IN /\ (node \in DOMAIN m /\ m[node] = c /\ DOMAIN m = {node})
                        => /\ pc'[c] = "removeEdsConPrune"
                           /\ clusters'[cur[c]].EdsClients = <<>>
                           /\ edsClusters' = edsClusters
                   /\ (node \in DOMAIN m /\ m[node] = c /\ DOMAIN m # {node})
                        => /\ pc'[c] = "removeCon"
                           /\ clusters'[cur[c]].EdsClients = DeleteKey(m, node)
                           /\ edsClusters' = edsClusters
                   /\ (node \notin DOMAIN m \/ m[node] # c)
                        => /\ pc'[c] = "removeCon"
                           /\ clusters' = clusters
                           /\ edsClusters' = edsClusters
        /\ \A c \in Conns :
            pc[c] = "removeEdsConPrune" =>
                /\ clusters[cur[c]].EdsClients = <<>>
                /\ PruneStep(c) =>
                    /\ con[c].Clusters[idx[c]] \notin DOMAIN edsClusters'
                    /\ clusters'[cur[c]].EdsClients = <<>>
        /\ \A n \in DOMAIN edsClusters :
            n \notin DOMAIN edsClusters'
                => clusters'[edsClusters[n]].EdsClients = <<>>
      ]_vars

\* a cluster that was computed and watched has lost its last watcher and its
\* name, while another removeEdsCon found its key mapped to another connection
C5_Witness ==
    \E c \in Conns :
        /\ pc[c] = "removeCon"
        /\ idx[c] = 2
        /\ con[c].Clusters[1] \notin DOMAIN edsClusters
        /\ \E k \in 1..Len(clusters) :
            /\ clusters[k].EdsClients = <<>>
            /\ clusters[k].LoadAssignment # <<>>

\* the step that handles a request received while the connection is
\* Established and that carries a longer list than the recorded one
ResyncStep(c) ==
    /\ pc[c] = "request" /\ pc'[c] # "request"
    /\ initialRequestReceived[c]
    /\ Len(discReq[c][1].ResourceNames) > Len(con[c].Clusters)

\* C6 (re-synchronization on a larger set): such a request is handled like a
\* first one: the recorded list becomes the requested one and the loop of
\* addEdsCon starts; every addEdsCon finds or creates the cluster of its name
\* in the registry and registers the connection in it under its id; a
\* connection already in the directory is not added again; a push follows.
C6_ResyncLikeFirstRequest ==
    [][ \A c \in Conns :
        /\ ResyncStep(c) =>
            /\ con'[c].Clusters = discReq[c][1].ResourceNames
            /\ initialRequestReceived'[c]
            /\ pc'[c] = "addEdsCon"
            /\ idx'[c] = 1
        /\ (pc[c] = "addEdsCon" /\ pc'[c] = "addEdsConLock") =>
            /\ con[c].Clusters[idx[c]] \in DOMAIN edsClusters'
            /\ cur'[c] = edsClusters'[con[c].Clusters[idx[c]]]
        /\ (pc[c] = "addEdsConLock" /\ pc'[c] # "addEdsConLock") =>
            /\ conID[c] \in DOMAIN clusters'[cur[c]].EdsClients
            /\ clusters'[cur[c]].EdsClients[conID[c]] = c
            /\ pc'[c] = IF idx[c] < Len(con[c].Clusters) THEN "addEdsCon" ELSE "addCon"
        /\ (pc[c] = "addCon" /\ pc'[c] # "addCon") =>
            /\ con[c].added => (adsClients' = adsClients /\ deferred' = deferred)
            /\ adds'[c] <= 1
            /\ Len(con[c].Clusters) > 0 => pc'[c] = "pushEds"
      ]_vars

\* a connection in the directory, which had been sent the endpoints of its
\* first name, has asked for two names, is registered in the clusters of
\* both, has been added to the directory once, and starts the push
C6_Witness ==
    \E c \in Conns :
        /\ pc[c] = "pushEds" /\ idx[c] = 1 /\ resAny[c] = <<>>
        /\ recvd[c] = 2 /\ reqChannel[c] = <<>> /\ req[c] = <<>>
        /\ con[c].Clusters = <<Names[1], Names[2]>>
        /\ discReq[c][1].ResourceNames = con[c].Clusters
        /\ con[c].added /\ adds[c] = 1
        /\ conID[c] # NoID /\ deferred[c] = <<conID[c]>>
        /\ \A n \in NameSet :
            /\ n \in DOMAIN edsClusters
            /\ conID[c] \in DOMAIN clusters[edsClusters[n]].EdsClients
        /\ clusters[edsClusters[Names[1]]].LoadAssignment # <<>>
        /\ clusters[edsClusters[Names[2]]].LoadAssignment = <<>>

\* the step that handles a request received while the connection is
\* Established with a non-empty list, and that carries no longer list
AckStep(c) ==
    /\ pc[c] = "request" /\ pc'[c] # "request"
    /\ initialRequestReceived[c]
    /\ Len(con[c].Clusters) > 0
    /\ Len(discReq[c][1].ResourceNames) <= Len(con[c].Clusters)

\* C7 (acknowledgment is a no-op): such a request, with or without error
\* detail, changes neither the recorded list, nor any cluster, nor the
\* registry, nor the directory, and the handler goes back to its select
\* without a push.
C7_AckIsNoOp ==
    [][ \A c \in Conns :
        AckStep(c) =>
            /\ con' = con
            /\ clusters' = clusters
            /\ edsClusters' = edsClusters
            /\ adsClients' = adsClients
            /\ initialRequestReceived' = initialRequestReceived
            /\ resAny' = resAny
            /\ ret' = ret
            /\ pc'[c] = "select"
      ]_vars

\* a request with error detail and a shorter list was taken as an ACK
C7_Witness ==
    \E c \in Conns :
        /\ pc[c] = "select"
        /\ discReq[c] # <<>>
        /\ discReq[c][1].ErrorDetail
        /\ Len(discReq[c][1].ResourceNames) < Len(con[c].Clusters)
        /\ initialRequestReceived[c]

\* C8 (connection-identity uniqueness): the ids connectionID returned are
\* pairwise distinct, and connectionNumber counts the calls: no increment is
\* lost.
C8_ConnectionIDsDistinct ==
    /\ \A c, d \in Conns :
        (c # d /\ conID[c] # NoID /\ conID[d] # NoID) => conID[c] # conID[d]
    /\ connectionNumber = Cardinality({c \in Conns : conID[c] # NoID})
    /\ \A c \in Conns : conID[c] # NoID => conID[c][2] \in 1..connectionNumber

\* two connections with the same node identifier have their ids
C8_Witness ==
    /\ \A c \in Conns : conID[c] # NoID
    /\ \A c, d \in Conns : conID[c][1] = conID[d][1]

\* the names of con.Clusters pushEds has not skipped, up to position k
RECURSIVE Kept(_, _)
Kept(c, k) ==
    IF k = 0 THEN <<>>
    ELSE IF k \in skipped[c] THEN Kept(c, k - 1)
         ELSE Append(Kept(c, k - 1), con[c].Clusters[k])

\* updateCluster, called by pushEds for a cluster without snapshot, failed
UpdateErrorStep(c) == pc[c] = "updateCluster" /\ pc'[c] \in {"pushEds", "Send"}

\* C9 (resolution failure during a push): the failure leaves every cluster
\* and its snapshot as they were, the handler goes on with the next name
\* or with the send, and the response that is sent holds one resource for
\* every watched name whose recomputation did not fail, in order, and none
\* for the others.
C9_ResolutionFailureSkips ==
    [][ \A c \in Conns :
        /\ UpdateErrorStep(c) =>
            /\ clusters' = clusters
            /\ resAny'[c] = resAny[c]
            /\ ret'[c] = "running"
        /\ pc[c] = "Send" =>
            /\ Len(resAny[c]) = Len(Kept(c, Len(con[c].Clusters)))
            /\ \A k \in 1..Len(resAny[c]) :
                resAny[c][k].ClusterName = Kept(c, Len(con[c].Clusters))[k]
      ]_vars

\* a response is about to be sent without the first name, whose recomputation
\* failed, and with the second
C9_Witness ==
    \E c \in Conns :
        /\ pc[c] = "Send"
        /\ skipped[c] = {1}
        /\ Len(con[c].Clusters) = 2
        /\ Len(resAny[c]) = 1
        /\ resAny[c][1].ClusterName = con[c].Clusters[2]

\* C10 (terminal result): a handler that has returned returned the send
\* error, or else the reader had closed reqChannel, no request was left in it,
\* and the handler returned nil after EOF or cancellation and the receive
\* error after any other error; if the connection had been added to the
\* directory, removeCon ran over the whole of con.Clusters and removed it.
C10_TerminalResult ==
    \A c \in Conns :
        pc[c] = "returned" =>
            /\ ret[c] # "running"
            /\ ret[c] # SendError =>
                /\ readerPc[c] = "closed" /\ reqClosed[c]
                /\ reqChannel[c] = <<>> /\ req[c] = <<>>
                /\ streamErr[c] \in {"EOF", "Canceled"} => ret[c] = NoErr
                /\ streamErr[c] \notin {"EOF", "Canceled"} => ret[c] = streamErr[c]
            /\ con[c].added =>
                /\ deferred[c] # <<>>
                /\ deferred[c][1] \in DOMAIN adsClients
                       => adsClients[deferred[c][1]] # c

\* a handler that had been added to the directory has processed both requests
\* of its client and has returned nil after a cancellation, its cleanup done
C10_Witness ==
    \E c \in Conns :
        /\ pc[c] = "returned"
        /\ con[c].added
        /\ streamErr[c] = "Canceled"
        /\ ret[c] = NoErr
        /\ recvd[c] = 2
        /\ con[c].Clusters # <<>>
        /\ deferred[c] = <<conID[c]>>
        /\ adsClients = <<>>

\* the position on the stream of the last request the handler took
Taken(c) == IF discReq[c] = <<>> THEN 0 ELSE discReq[c][1].seq

\* the handler is between the state update of a request and the send of the
\* response that request triggers
Answering(c) ==
    pc[c] \in {"addEdsCon", "addEdsConLock", "addCon", "pushEds", "loadAssignment",
               "updateCluster", "updateClusterWrite", "reload", "Send"}

\* C11 (per-connection ordering): the handler takes the requests in the order
\* of their positions on the stream, one at a time; a request that is not an
\* ACK records its own list; from the state update to the send neither the
\* recorded list changes nor another request is taken; and a response is sent
\* only after a request has been processed, with the non-skipped names of the
\* recorded list in their order.
C11_RequestsInOrder ==
    [][ \A c \in Conns :
        /\ (pc[c] = "select" /\ pc'[c] = "request") =>
            /\ discReq'[c][1].seq = Taken(c) + 1
            /\ discReq'[c][1].seq <= recvd[c]
        /\ (pc[c] = "request" /\ pc'[c] \in {"addEdsCon", "addCon"}) =>
            /\ con'[c].Clusters = discReq[c][1].ResourceNames
            /\ initialRequestReceived'[c]
        /\ Answering(c) =>
            /\ con'[c].Clusters = con[c].Clusters
            /\ discReq'[c] = discReq[c]
        /\ pc[c] = "Send" =>
            /\ initialRequestReceived[c]
            /\ Taken(c) >= 1
            /\ Len(con[c].Clusters) > 0
            /\ [k \in 1..Len(resAny[c]) |-> resAny[c][k].ClusterName]
                   = Kept(c, Len(con[c].Clusters))
      ]_vars

\* the second request of a stream, which carries a longer list, is answered
\* with both names while the reader has nothing more to forward
C11_Witness ==
    \E c \in Conns :
        /\ pc[c] = "Send"
        /\ Taken(c) = 2 /\ recvd[c] = 2
        /\ discReq[c][1].ResourceNames = <<Names[1], Names[2]>>
        /\ con[c].Clusters = discReq[c][1].ResourceNames
        /\ Len(resAny[c]) = 2
        /\ resAny[c][1].ClusterName = Names[1]
        /\ resAny[c][2].ClusterName = Names[2]

\* the entry edsPushAll is working on
PushEntry == tmpMap[clusterName]

\* C12 (recompute failure during a broadcast cycle): a failed updateCluster
\* of edsPushAll changes no cluster and no pushChannel, and the cycle goes on
\* with the clusters left in its copy: it ends only when none is left.  A
\* successful one publishes what it computed; the range that follows starts
\* over all the watchers of the entry, each of its steps puts the entry's
\* event on the pushChannel of the watcher it is at, and the mutex is released
\* only when no watcher is left.
C12_FailureSkipsOnlyTheEntry ==
    [][ /\ (pushPc = "updateCluster" /\ pending' # pending
                /\ pushPc' # "updateClusterWrite") =>
            /\ clusters' = clusters
            /\ pushChannel' = pushChannel
            /\ edsClusters' = edsClusters
            /\ pending' \subseteq pending
            /\ Cardinality(pending') = Cardinality(pending) - 1
            /\ pushPc' = IF pending' = {} THEN "idle" ELSE "updateCluster"
        /\ pushPc = "idle" => pending = {}
        /\ (pushPc = "updateClusterWrite" /\ pushPc' = "Lock") =>
            /\ clusters'[PushEntry].LoadAssignment = pushLocEps
            /\ pushLocEps[1].ClusterName = clusterName
        /\ (pushPc = "Lock" /\ pushPc' = "signal") =>
            {target'[k] : k \in DOMAIN target'} \cup clients'
                = DOMAIN clusters[PushEntry].EdsClients
        /\ (pushPc = "signal" /\ pushPc' = "signal" /\ target' # target) =>
            /\ target # <<>>
            /\ pushChannel'[Target] = <<XdsEvent(clusterName)>>
            /\ {target'[k] : k \in DOMAIN target'} \cup clients' = clients
            /\ target[1] \notin clients
        /\ (pushPc = "signal" /\ pushPc' # "signal") =>
            /\ target = <<>> /\ clients = {}
            /\ clusters'[PushEntry].mutex = ""
      ]_vars

\* a cycle is over in which the first name of a connection could not be
\* resolved, its snapshot still nil, and the connection carries the signal for
\* its second name, which was recomputed
C12_Witness ==
    \E c \in Conns :
        /\ pushPc = "idle" /\ cycle = 1 /\ pending = {}
        /\ Established(c) /\ con[c].Clusters = <<Names[1], Names[2]>>
        /\ NameSet \subseteq DOMAIN edsClusters
        /\ \A n \in NameSet : c \in Watchers(edsClusters[n])
        /\ clusters[edsClusters[Names[1]]].LoadAssignment = <<>>
        /\ clusters[edsClusters[Names[2]]].LoadAssignment # <<>>
        /\ pushChannel[c] = <<XdsEvent(Names[2])>>

\* C13 (empty result and first-non-empty bookkeeping): a snapshot that is not
\* nil never becomes nil again; NonEmptyTime, once set, never changes; it is
\* set by the step that publishes a snapshot with at least one group while it
\* was unset, to the time of that step, and by no other step, so that a
\* cluster whose snapshot has groups has it set; and pushEds appends the
\* snapshot it read after updateCluster as one resource, whatever the number
\* of its groups.
C13_EmptyResultAndNonEmptyTime ==
    [][ /\ \A k \in 1..Len(clusters) :
            LET old == clusters[k]
                new == clusters'[k]
            IN /\ old.LoadAssignment # <<>> => new.LoadAssignment # <<>>
               /\ old.NonEmptyTime # 0 => new.NonEmptyTime = old.NonEmptyTime
               /\ (old.NonEmptyTime = 0 /\ new.NonEmptyTime # 0) =>
                    /\ new.LoadAssignment # <<>>
                    /\ new.LoadAssignment # old.LoadAssignment
                    /\ Cardinality(new.LoadAssignment[1].Endpoints) > 0
                    /\ new.NonEmptyTime = Now
               /\ (new.LoadAssignment # old.LoadAssignment
                     /\ Cardinality(new.LoadAssignment[1].Endpoints) = 0) =>
                    new.NonEmptyTime = old.NonEmptyTime
               /\ (old.LoadAssignment # <<>>
                     /\ Cardinality(old.LoadAssignment[1].Endpoints) > 0) =>
                    old.NonEmptyTime # 0
        /\ \A c \in Conns :
            (pc[c] = "reload" /\ pc'[c] # "reload") =>
                /\ clusters[cur[c]].LoadAssignment # <<>>
                /\ resAny'[c] = Append(resAny[c], clusters[cur[c]].LoadAssignment[1])
      ]_vars

\* a response is about to be sent with the first name's snapshot, which has
\* no group, and the second name's, which has one: the first cluster has no
\* NonEmptyTime and the second has
C13_Witness ==
    \E c \in Conns :
        /\ pc[c] = "Send"
        /\ Len(resAny[c]) = 2
        /\ resAny[c][1].ClusterName = Names[1]
        /\ resAny[c][1].Endpoints = {}
        /\ resAny[c][2].Endpoints # {}
        /\ clusters[edsClusters[Names[1]]].LoadAssignment = <<resAny[c][1]>>
        /\ clusters[edsClusters[Names[1]]].NonEmptyTime = 0
        /\ clusters[edsClusters[Names[2]]].NonEmptyTime # 0

HasValidAddress(i) == i.Address \in ValidIPs

\* the zone values present in the list
ZonesPresent == {instances[k].AvailabilityZone : k \in 1..Len(instances)}

\* the zone values of the instances of the list that have a valid address
ZonesWithValidAddress ==
    {instances[k].AvailabilityZone :
        k \in {j \in 1..Len(instances) : HasValidAddress(instances[j])}}

\* the addresses of the valid instances of zone z, in the order of the list
ValidOfZone(z) ==
    SelectSeq(instances, LAMBDA i : i.AvailabilityZone = z /\ HasValidAddress(i))

RECURSIVE TotalEndpoints(_)
TotalEndpoints(groups) ==
    IF groups = {} THEN 0
    ELSE LET g == CHOOSE x \in groups : TRUE
         IN Len(g.LbEndpoints) + TotalEndpoints(groups \ {g})

\* C14 as claimed: one group for every zone value present in the list
C14_OneGroupPerZonePresent ==
    out # <<>> =>
        /\ {g.Zone : g \in out[1]} = ZonesPresent
        /\ Cardinality(out[1]) = Cardinality(ZonesPresent)

\* C14 (locality grouping), amended: there is exactly one group for every
\* zone value of an instance with a valid address, the empty zone included,
\* and no other group; the endpoints of a group are those of the valid
\* instances of its zone in the order of the list, so that the groups hold as
\* many endpoints as the list has valid instances.
C14_OneGroupPerZoneWithValidAddress ==
    out # <<>> =>
        /\ {g.Zone : g \in out[1]} = ZonesWithValidAddress
        /\ Cardinality(out[1]) = Cardinality(ZonesWithValidAddress)
        /\ \A g \in out[1] :
            /\ Len(g.LbEndpoints) = Len(ValidOfZone(g.Zone))
            /\ \A k \in 1..Len(g.LbEndpoints) :
                /\ g.LbEndpoints[k].Address = ValidOfZone(g.Zone)[k].Address
                /\ g.LbEndpoints[k].PortValue = ValidOfZone(g.Zone)[k].Port
        /\ TotalEndpoints(out[1])
               = Cardinality({k \in 1..Len(instances) : HasValidAddress(instances[k])})

\* the list had two valid instances of one zone around an invalid one of a
\* zone of its own: the result is one group of two endpoints
C14_Witness ==
    /\ out # <<>>
    /\ Len(instances) = 3
    /\ instances[1].Address = "::1" /\ instances[3].Address = "10.0.0.1"
    /\ instances[1].AvailabilityZone = "" /\ instances[3].AvailabilityZone = ""
    /\ instances[2].Address = "not-an-ip" /\ instances[2].AvailabilityZone = "z2"
    /\ Cardinality(out[1]) = 1
    /\ \A g \in out[1] : Len(g.LbEndpoints) = 2 /\ g.LbEndpoints[1].Address = "::1"

\* C15 (unsupported methods): every call of FetchEndpoints and of
\* StreamLoadStats returns an error and no response, whatever the state and
\* the argument, and changes neither the registry, nor a cluster, nor a
\* connection, nor connectionNumber, nor anything else of the program.
C15_UnsupportedMethodsFail ==
    [][ rpcRet' # rpcRet =>
            /\ Len(rpcRet') = Len(rpcRet) + 1
            /\ rpcRet'[Len(rpcRet')].err # NoErr
            /\ rpcRet'[Len(rpcRet')].resp = <<>>
            /\ \A k \in 1..Len(rpcRet) : rpcRet'[k] = rpcRet[k]
            /\ UNCHANGED <<regVars, readerVars, handlerVars, pushVars>>
      ]_vars

\* a call has returned while two connections have their ids, one of them is
\* about to send, and edsPushAll holds the mutex of a cluster that has a
\* snapshot and a watcher
C15_Witness ==
    /\ rpcRet # <<>>
    /\ connectionNumber = 2
    /\ pushPc = "signal"
    /\ \E k \in 1..Len(clusters) :
        /\ clusters[k].mutex # ""
        /\ clusters[k].LoadAssignment # <<>>
        /\ clusters[k].EdsClients # <<>>
    /\ \E c \in Conns : pc[c] = "Send"

\* c has its id, has finished the registration of its recorded list and has
\* not begun its cleanup
Settled(c) ==
    /\ Established(c)
    /\ conID[c] # NoID
    /\ pc[c] \in {"select", "pushEds", "loadAssignment", "updateCluster",
                 "updateClusterWrite", "reload", "Send"}

\* C16 (watcher/registry consistency under concurrent add and remove): a
\* connection that has finished processing a first-branch request and watches
\* name n is a watcher of the cluster the registry maps n to.
C16_RegisteredInCurrentEntry ==
    \A c \in Conns :
        Settled(c) =>
            \A n \in Watched(c) :
                /\ n \in DOMAIN edsClusters
                /\ c \in Watchers(edsClusters[n])

\* a handler's call of getOrAddEdsCluster, from addEdsCon or from pushEds
GetOrAddStep(c) ==
    \/ pc[c] = "addEdsCon" /\ pc'[c] = "addEdsConLock"
    \/ pc[c] = "pushEds" /\ pc'[c] = "loadAssignment"

\* C17 (registry uniqueness): no two names share a cluster and every name of
\* the registry has one; a name keeps its cluster as long as it is in the
\* registry; getOrAddEdsCluster returns the cluster of a name that is in the
\* registry and creates nothing, and for a name that is not it creates one
\* cluster, with no watcher and no snapshot, maps the name to it and leaves
\* the other names and clusters alone.
C17_RegistryUniqueness ==
    [][ /\ \A n, m \in DOMAIN edsClusters :
            /\ edsClusters[n] \in 1..Len(clusters)
            /\ edsClusters[n] = edsClusters[m] => n = m
        /\ \A n \in DOMAIN edsClusters \cap DOMAIN edsClusters' :
            edsClusters'[n] = edsClusters[n]
        /\ \A c \in Conns :
            GetOrAddStep(c) =>
                LET name == con[c].Clusters[idx[c]]
                IN IF name \in DOMAIN edsClusters
                   THEN /\ cur'[c] = edsClusters[name]
                        /\ clusters' = clusters
                        /\ edsClusters' = edsClusters
                   ELSE /\ Len(clusters') = Len(clusters) + 1
                        /\ \A k \in 1..Len(clusters) : clusters'[k] = clusters[k]
                        /\ cur'[c] = Len(clusters')
                        /\ clusters'[cur'[c]].EdsClients = <<>>
                        /\ clusters'[cur'[c]].LoadAssignment = <<>>
                        /\ DOMAIN edsClusters' = DOMAIN edsClusters \cup {name}
                        /\ edsClusters'[name] = cur'[c]
      ]_vars

\* two connections have called getOrAddEdsCluster for the same name one after
\* the other: one cluster was created and both hold it
C17_Witness ==
    /\ \A c \in Conns : pc[c] = "addEdsConLock" /\ con[c].Clusters[idx[c]] = Names[1]
    /\ Len(clusters) = 1
    /\ \A c \in Conns : cur[c] = edsClusters[Names[1]]

\* the clusters whose mutex is held across steps
Held == {k \in 1..Len(clusters) : clusters[k].mutex # ""}

\* the clusters whose mutex worker w holds across steps
HeldBy(w) == {k \in Held : clusters[k].mutex = w}

\* C18 (lock-hold discipline) as claimed: a worker that is in updateCluster's
\* registry lookup or in stream.Send holds neither edsClusterMutex nor a
\* cluster mutex; edsClusterMutex is held only around the lookups, inserts
\* and deletes of edsClusters and the increment of connectionNumber, each of
\* which is one step, so that it is free between steps; and a cluster mutex
\* is held only around the reads and writes of the snapshot and of the
\* watcher set: whoever holds one between steps has only its Unlock() left
\* to do, and is not at a channel send or at the Lock() of another mutex.
C18_LocksOnlyAroundTheirData ==
    /\ \A c \in Conns :
        pc[c] \in {"updateCluster", "Send"} =>
            HeldBy(c) = {} /\ edsClusterMutex # c
    /\ pushPc = "updateCluster" =>
            HeldBy("edsPushAll") = {} /\ edsClusterMutex # "edsPushAll"
    /\ edsClusterMutex = ""
    /\ \A k \in Held : clusters[k].mutex \in Conns \cup {"edsPushAll"}
    /\ HeldBy("edsPushAll") # {} => pushPc = "signal" /\ target = <<>>
    /\ \A c \in Conns : HeldBy(c) = {}

\* the revision of the registry the snapshot of cluster k was computed from
SnapshotVer(k) == clusters[k].LoadAssignment[1].ver

\* C19 (convergence after invalidation), in the form a finite run refutes: a
\* recomputation that asked the registry before a change never replaces a
\* snapshot computed after it, that is, no step replaces a snapshot by one
\* computed from an older revision of the registry.
C19_NoStaleOverwrite ==
    [][ \A k \in 1..Len(clusters) :
            clusters[k].LoadAssignment # <<>> =>
                clusters'[k].LoadAssignment[1].ver >= SnapshotVer(k)
      ]_vars

\* C20 (reader worker termination), in the form a finite run refutes: once the
\* handler of a connection has returned, its reader is not blocked on
\* reqChannel <- req with the one slot still taken, a position it can never
\* leave because only the handler receives from reqChannel.
C20_ReaderNotStuck ==
    \A c \in Conns :
        pc[c] = "returned" => ~(readerPc[c] = "forward" /\ reqChannel[c] # <<>>)

====
